---- MODULE Spec2Model ----
(***************************************************************************)
(* Binaric v1 audio codec: the encoder of binaric_to_audio.py and the      *)
(* deframer of audio_to_binaric.py.                                        *)
(*                                                                         *)
(* Bit strings are sequences over {0, 1}; byte strings and text are        *)
(* sequences of byte values / code points.  A waveform is a sequence of    *)
(* samples; a sample is the set of sine components summed into it.  A      *)
(* component [f, fs] is sin(2*pi*f*n/fs) at sample n: f is the frequency   *)
(* the code asked for and fs the sample spacing of the time axis it was    *)
(* generated on, so it sounds at f in a file played at sample_rate only    *)
(* when fs = sample_rate.                                                  *)
(***************************************************************************)
EXTENDS Integers, Sequences, FiniteSets, TLC

VARIABLES
    request,          \* the request: header dict, content bytes, footer text
    freq_config,      \* the frequency plan: role -> list of tones (Hz)
    clock_speed,      \* clock cycles (symbols) per second
    sample_rate,      \* samples per second of the output file
    pc,               \* position in the encode / decode pipeline
    error,            \* exception that aborted the pipeline, or "none"
    bits,             \* section -> framed bit string
    padded,           \* section -> bit string after pad_bits
    symbols,          \* section -> list of symbols (bit groups)
    wave,             \* section -> section waveform with its mode overlay
    data_wave,        \* header_wave ++ content_wave ++ footer_wave
    clock_wave,       \* the Manchester clock waveform
    full_wave,        \* data_wave + clock_wave
    bit_data,         \* sampled entries [h, c, f, m], one per clock transition
    di,               \* number of entries of bit_data the deframer has walked
    header_bits_str,  \* deframer header buffer
    content_bits_str, \* deframer content buffer
    footer_bits_str,  \* deframer footer buffer
    binaric_request,  \* the decoded envelope
    pad_in,           \* pad_bits unit: the bit string given
    pad_w,            \* pad_bits unit: the group size given
    pad_out,          \* pad_bits unit: results of pad_bits, applied once and twice
    conv_kind,        \* conversion unit: "bits", "bytes" or "text"
    conv_in,          \* conversion unit: the bit string, byte string or text given
    conv_bits,        \* conversion unit: the bit string handed to the decoder side
    conv_out,         \* conversion unit: what bits_to_bytes / bits_to_string returned
    Sxx,              \* spectrogram: one record of role powers per time column
    peaks,            \* find_peaks result: column indices of the clock edges
    transition_times, \* detect_clock_edges result: the columns of the transitions
    data,             \* write_wav: the waveform given, as amplitudes
    data_int16,       \* write_wav: the 16-bit samples written
    json_file,        \* load_freq_config: the plan as stored in the file
    file_request,     \* binaric_data: the BinaricRequest given (header, content, footer)
    header_bitdepth,  \* binaric_data: base of the header digits
    footer_bitdepth,  \* binaric_data: base of the footer digits
    header_raw,       \* binaric_data: RawData of the header
    content_raw,      \* binaric_data: RawData of the content
    footer_raw,       \* binaric_data: RawData of the footer
    reconstructed_request, \* binaric_data: what from_binaric returned
    buffer,           \* AudioBuffer: the stored samples
    calls,            \* AudioBuffer: the calls made so far, in order
    returned,         \* AudioBuffer: what the last get_latest_chunk returned
    bitset_text,      \* transmit: the text given to string_to_bitset
    chunk_length,     \* transmit: the chunk length given
    bitset,           \* transmit: the nested bit list
    bitset_out        \* transmit: what bitset_to_string returned

vars == <<request, freq_config, clock_speed, sample_rate, pc, error, bits, padded,
          symbols, wave, data_wave, clock_wave, full_wave, bit_data, di,
          header_bits_str, content_bits_str, footer_bits_str, binaric_request,
          pad_in, pad_w, pad_out, conv_kind, conv_in, conv_bits, conv_out,
          Sxx, peaks, transition_times, data, data_int16, json_file,
          file_request, header_bitdepth, footer_bitdepth, header_raw, content_raw,
          footer_raw, reconstructed_request, buffer, calls, returned,
          bitset_text, chunk_length, bitset, bitset_out>>

convVars == <<conv_kind, conv_in, conv_bits, conv_out>>
sxxVars == <<Sxx, peaks, transition_times>>
wavVars == <<data, data_int16>>
dataVars == <<file_request, header_bitdepth, footer_bitdepth, header_raw, content_raw,
              footer_raw, reconstructed_request>>
bufVars == <<buffer, calls, returned>>
bitsetVars == <<bitset_text, chunk_length, bitset, bitset_out>>
libVars == <<dataVars, bufVars, bitsetVars>>
auxVars == <<convVars, sxxVars, wavVars, json_file, libVars>>

encVars == <<bits, padded, symbols, wave, data_wave, clock_wave, full_wave>>
decVars == <<bit_data, di, header_bits_str, content_bits_str, footer_bits_str,
             binaric_request>>
padVars == <<pad_in, pad_w, pad_out>>
inVars == <<request, freq_config, clock_speed, sample_rate>>

-----------------------------------------------------------------------------
(* Bounds of the model *)

MaxContentLen == 2      \* content bytes per request
MaxFooterLen == 1       \* footer characters per request
MaxSideTones == 3       \* tones of the header and of the footer list
MaxContentTones == 16   \* tones of the content list
MaxEntries == 2         \* sampled entries handed to the deframer on its own
MaxPadBits == 5         \* length of the bit strings given to pad_bits on its own
MaxGroup == 4           \* group sizes given to pad_bits on its own
MaxRawBits == 9         \* length of the arbitrary bit strings given to bits_to_bytes
MaxConvBytes == 2       \* length of the byte strings given to bytes_to_bits
MaxText == 2            \* length of the texts given to string_to_bits
NumColumns == 5         \* time columns of the spectrogram given to the decoder
MaxWavLen == 3          \* samples of the waveforms given to write_wav on its own
MaxAmp == 3             \* largest amplitude of those samples, in steps
MaxScale == 3           \* largest factor a column of powers is multiplied by
MaxBitdepth == 3        \* largest header and footer bit depth of a raw conversion
MaxChecksum == 5        \* largest footer checksum of a raw conversion
MaxFileLen == 2         \* content bytes of a BinaricRequest
MaxCalls == 4           \* calls made on one AudioBuffer
MaxChunkBytes == 2      \* bytes of a chunk given to append_chunk
MaxChunkSize == 2       \* largest chunk_size given to get_latest_chunk
MaxChunkLength == 9     \* largest chunk_length given to string_to_bitset

(* Program constants *)

DefaultSampleRate == 44100   \* add_mode_frequency_overlay(..., sample_rate=44100)
ByteWidth == 8               \* format(b, '08b'), bit_str[i:i+8]
FullScale == 32767           \* write_wav: data / max * 32767
ByteRange == 256             \* math.log(256, base): the number of byte values
Int16Range == 65536          \* np.int16: the number of 16-bit values

SectionSet == {"header", "content", "footer"}

-----------------------------------------------------------------------------
(* Sequence helpers *)

RECURSIVE Flatten(_)
Flatten(ss) == IF ss = <<>> THEN <<>> ELSE Head(ss) \o Flatten(Tail(ss))

Repeat(x, n) == [i \in 1..n |-> x]

RECURSIVE SeqsUpTo(_, _)
SeqsUpTo(S, n) ==
    IF n = 0 THEN {<<>>}
    ELSE LET shorter == SeqsUpTo(S, n - 1)
         IN  shorter \cup {Append(s, x) : s \in {t \in shorter : Len(t) = n - 1}, x \in S}

Pow2(n) == IF n = 0 THEN 1 ELSE IF n = 1 THEN 2 ELSE IF n = 2 THEN 4
           ELSE IF n = 3 THEN 8 ELSE IF n = 4 THEN 16 ELSE IF n = 5 THEN 32
           ELSE IF n = 6 THEN 64 ELSE 128

-----------------------------------------------------------------------------
(* binaric_to_audio.py: bit conversions and padding *)

\* format(b, '08b'): the 8 bits of a byte, most significant first
ByteBits(b) == [i \in 1..ByteWidth |-> (b \div Pow2(ByteWidth - i)) % 2]

\* s.encode('utf-8') of one code point (below U+10000)
Utf8Char(cp) ==
    IF cp < 128 THEN <<cp>>
    ELSE IF cp < 2048 THEN <<192 + (cp \div 64), 128 + (cp % 64)>>
    ELSE <<224 + (cp \div 4096), 128 + ((cp \div 64) % 64), 128 + (cp % 64)>>

Utf8Encode(s) == Flatten([i \in 1..Len(s) |-> Utf8Char(s[i])])

bytes_to_bits(b_data) == Flatten([i \in 1..Len(b_data) |-> ByteBits(b_data[i])])

string_to_bits(s) == bytes_to_bits(Utf8Encode(s))

\* a variant that never pads
pad_bits_NoPad(bit_string, group_size) == bit_string

\* a variant that pads a whole group when the length is already a multiple
pad_bits_FullGroup(bit_string, group_size) ==
    bit_string \o Repeat(0, group_size - (Len(bit_string) % group_size))

pad_bits(bit_string, group_size) ==
    LET r == Len(bit_string) % group_size
    IN  IF r # 0 THEN bit_string \o Repeat(0, group_size - r) ELSE bit_string

-----------------------------------------------------------------------------
(* base64 text is a sequence of alphabet indices 0..63, with 64 for '=' *)


B64Group(g) ==
    LET n == g[1] * 65536 + (IF Len(g) >= 2 THEN g[2] * 256 ELSE 0)
                          + (IF Len(g) >= 3 THEN g[3] ELSE 0)
    IN  <<n \div 262144, (n \div 4096) % 64,
          IF Len(g) >= 2 THEN (n \div 64) % 64 ELSE 64,
          IF Len(g) >= 3 THEN n % 64 ELSE 64>>

\* base64.b64encode
b64encode(b) ==
    Flatten([k \in 1..((Len(b) + 2) \div 3) |->
                B64Group(SubSeq(b, 3 * k - 2, IF 3 * k <= Len(b) THEN 3 * k ELSE Len(b)))])

B64Quad(q) ==
    LET v(i) == IF q[i] = 64 THEN 0 ELSE q[i]
        n == v(1) * 262144 + v(2) * 4096 + v(3) * 64 + v(4)
        all == <<n \div 65536, (n \div 256) % 256, n % 256>>
    IN  IF q[3] = 64 THEN SubSeq(all, 1, 1)
        ELSE IF q[4] = 64 THEN SubSeq(all, 1, 2) ELSE all

\* base64.b64decode of well-padded text; text whose length is no multiple of 4
\* raises binascii.Error, which transcribe_request_to_audio turns into b""
b64decode_or_empty(s) ==
    IF Len(s) % 4 # 0 THEN <<>>
    ELSE Flatten([k \in 1..(Len(s) \div 4) |-> B64Quad(SubSeq(s, 4 * k - 3, 4 * k))])

-----------------------------------------------------------------------------
(* json.dumps / json.loads on the header values of the model: a header is a *)
(* dict, written as a sequence of <<key code point, integer value>> pairs   *)

JsonPair(kv) == <<34, kv[1], 34, 58, 32, 48 + kv[2]>>    \* "k": v

\* json.dumps(dict), default separators
json_dumps(h) ==
    <<123>> \o Flatten([i \in 1..Len(h) |->
                          (IF i > 1 THEN <<44, 32>> ELSE <<>>) \o JsonPair(h[i])])
            \o <<125>>

-----------------------------------------------------------------------------
(* binaric_to_audio.py: tone generation *)

\* int(sample_rate * (1.0 / clock_speed))
SamplesPer(rate, speed) == rate \div speed

Min(a, b) == IF a < b THEN a ELSE b

\* a variant that sounds the tones of the 0 bits
generate_symbol_wave_Inverted(symbol_bits, freqs, speed, rate) ==
    LET n == SamplesPer(rate, speed)
        on == {i \in 1..Min(Len(symbol_bits), Len(freqs)) : symbol_bits[i] = 0}
    IN  Repeat({[f |-> freqs[i], fs |-> n * speed] : i \in on}, n)

\* one symbol: the sum of the sines of the tones whose bit is 1, over
\* n = int(sample_rate * symbol_duration) samples spaced symbol_duration / n
generate_symbol_wave(symbol_bits, freqs, speed, rate) ==
    LET n == SamplesPer(rate, speed)
        on == {i \in 1..Min(Len(symbol_bits), Len(freqs)) : symbol_bits[i] = 1}
    IN  Repeat({[f |-> freqs[i], fs |-> n * speed] : i \in on}, n)

\* bit_string[i:i+bits_per_symbol] for i in range(0, len(bit_string), bits_per_symbol)
SplitSymbols(bit_string, bits_per_symbol) ==
    [k \in 1..((Len(bit_string) + bits_per_symbol - 1) \div bits_per_symbol) |->
        SubSeq(bit_string, (k - 1) * bits_per_symbol + 1,
               Min(k * bits_per_symbol, Len(bit_string)))]

\* np.concatenate raises ValueError on an empty list of arrays
np_concatenate(arrays) ==
    IF arrays = <<>> THEN [raised |-> "ValueError", value |-> <<>>]
    ELSE [raised |-> "none", value |-> Flatten(arrays)]

\* lines 57-60, on the padded bit string: the symbols and their waves
EncodePadded(pb, syms, freqs, speed, rate, seg) ==
    [padded |-> pb, symbols |-> syms, raised |-> seg.raised, segment |-> seg.value]

SymbolWaves(syms, freqs, speed, rate) ==
    np_concatenate([k \in 1..Len(syms) |-> generate_symbol_wave(syms[k], freqs, speed, rate)])

EncodeSymbols(pb, syms, freqs, speed, rate) ==
    EncodePadded(pb, syms, freqs, speed, rate, SymbolWaves(syms, freqs, speed, rate))

EncodeBits(pb, freqs, speed, rate) ==
    EncodeSymbols(pb, SplitSymbols(pb, Len(freqs)), freqs, speed, rate)

\* the segment of one section, with the padded bit string and the symbols it
\* was cut into; with no tone, len(bit_string) % 0 in pad_bits raises
encode_segment_from_bits(bit_string, freqs, speed, rate) ==
    IF Len(freqs) = 0
    THEN [padded |-> <<>>, symbols |-> <<>>, raised |-> "ZeroDivisionError", segment |-> <<>>]
    ELSE EncodeBits(pad_bits(bit_string, Len(freqs)), freqs, speed, rate)

\* "0" becomes "10" and "1" becomes "01"
manchester_encode(bit_string) ==
    Flatten([i \in 1..Len(bit_string) |->
                IF bit_string[i] = 0 THEN <<1, 0>> ELSE <<0, 1>>])

ClockBits == <<1, 0, 1, 0, 1, 0, 1, 0, 1, 0>>

\* np.tile
Tile(w, n) == [p \in 1..(n * Len(w)) |-> w[((p - 1) % Len(w)) + 1]]

\* lines 78-84: the 20 half-period segments of the encoded clock pattern
ClockPattern(clock_freqs, encoded_clock, half, speed) ==
    Flatten([i \in 1..Len(encoded_clock) |->
                Repeat({[f |-> IF encoded_clock[i] = 1 THEN clock_freqs[1]
                                                       ELSE clock_freqs[2],
                         fs |-> 2 * half * speed]}, half)])

\* lines 88-92: trimmed, or padded with zeros, to total_samples
TrimOrPad(w, total_samples) ==
    IF Len(w) > total_samples THEN SubSeq(w, 1, total_samples)
    ELSE w \o Repeat({}, total_samples - Len(w))

\* IEEE-754 doubles: the n up to 420 for which sample_rate * (n / sample_rate)
\* rounds to just below n, so that int() of it is n - 1 (the same n for 44100
\* and 22050, which differ by a power of two)
ProductShort(rate) ==
    IF rate = 44100 \/ rate = 22050
    THEN {15, 23, 30, 46, 53, 60, 92, 106, 120, 184, 197, 199, 212, 225, 227, 240,
          253, 255, 353, 357, 368, 379, 383, 394, 398, 409, 413}
    ELSE {}

\* the n up to 420 for which (n / sample_rate) * clock_speed rounds to just
\* below the whole number n * clock_speed / sample_rate
CyclesShort(rate, speed) ==
    IF rate = 44100 /\ speed = 14700 THEN {93, 186, 357, 372}
    ELSE IF rate = 22050 /\ speed = 11025
         THEN {30, 46, 60, 92, 106, 120, 184, 212, 240, 368, 394, 398}
    ELSE {}

\* int(sample_rate * duration), duration being num_samples / sample_rate
TotalSamples(num_samples, rate) ==
    IF num_samples \in ProductShort(rate) THEN num_samples - 1 ELSE num_samples

\* int(duration * clock_speed)
NumCycles(num_samples, speed, rate) ==
    IF num_samples \in CyclesShort(rate, speed)
    THEN ((num_samples * speed) \div rate) - 1
    ELSE (num_samples * speed) \div rate

\* duration is len(data_wave) / sample_rate, given here as num_samples
generate_manchester_clock_wave(clock_freqs, speed, num_samples, rate) ==
    TrimOrPad(Tile(ClockPattern(clock_freqs, manchester_encode(ClockBits),
                                SamplesPer(rate, speed) \div 2, speed),
                   NumCycles(num_samples, speed, rate)),
              TotalSamples(num_samples, rate))

\* the mode tone is generated on a time axis of len(base_wave) / sample_rate
\* seconds, with the sample_rate of the signature (the callers pass none)
add_mode_frequency_overlay(base_wave, mode_freq) ==
    [i \in 1..Len(base_wave) |->
        base_wave[i] \cup {[f |-> mode_freq, fs |-> DefaultSampleRate]}]

\* data_wave + clock_wave, sample by sample
AddWaves(a, b) == [i \in 1..Len(a) |-> a[i] \cup b[i]]

\* a + b of two arrays: arrays of different lengths, neither of length 1, do
\* not broadcast and raise ValueError
np_add(a, b) ==
    IF Len(a) = Len(b) THEN [raised |-> "none", value |-> AddWaves(a, b)]
    ELSE IF Len(b) = 1 THEN [raised |-> "none", value |-> AddWaves(a, Repeat(b[1], Len(a)))]
    ELSE IF Len(a) = 1 THEN [raised |-> "none", value |-> AddWaves(Repeat(a[1], Len(b)), b)]
    ELSE [raised |-> "ValueError", value |-> <<>>]

-----------------------------------------------------------------------------
(* binaric_to_audio.py: write_wav, on amplitudes that are whole steps *)

Abs(x) == IF x < 0 THEN -x ELSE x

\* np.max(np.abs(data)) of a non-empty array
MaxAbs(d) == CHOOSE m \in {Abs(d[i]) : i \in 1..Len(d)} : \A i \in 1..Len(d) : Abs(d[i]) <= m

\* np.int16 of a quotient: truncation toward zero
TruncDiv(a, b) == IF a >= 0 THEN a \div b ELSE -((-a) \div b)

\* a variant that writes the samples as they are
write_wav_NoNormalize(d) == [raised |-> "none", value |-> d]

\* lines 103-106: the 16-bit samples; np.max of an empty array raises ValueError
write_wav(d) ==
    IF d = <<>> THEN [raised |-> "ValueError", value |-> <<>>]
    ELSE IF MaxAbs(d) > 0
         THEN [raised |-> "none",
               value |-> [i \in 1..Len(d) |-> TruncDiv(d[i] * FullScale, MaxAbs(d))]]
    ELSE [raised |-> "none", value |-> d]

-----------------------------------------------------------------------------
(* audio_to_binaric.py: bit conversions *)

\* int(byte, 2)
BitsValue(byte) ==
    LET RECURSIVE val(_)
        val(k) == IF k = 0 THEN 0 ELSE 2 * val(k - 1) + byte[k]
    IN  val(Len(byte))

\* the full groups of 8 bits, each as a number; a shorter last group is skipped
FullBytes(bit_str) ==
    [k \in 1..(Len(bit_str) \div ByteWidth) |->
        BitsValue(SubSeq(bit_str, ByteWidth * (k - 1) + 1, ByteWidth * k))]

\* chr(int(byte, 2)) of every full group: one code point per byte
bits_to_string(bit_str) == FullBytes(bit_str)

\* a variant that also converts a shorter last group
bits_to_bytes_KeepTail(bit_str) ==
    [k \in 1..((Len(bit_str) + ByteWidth - 1) \div ByteWidth) |->
        BitsValue(SubSeq(bit_str, ByteWidth * (k - 1) + 1, Min(ByteWidth * k, Len(bit_str))))]

bits_to_bytes(bit_str) == FullBytes(bit_str)

\* json.loads on the texts of the model: a text json_dumps wrote parses back
\* to its dict (one digit values); a text of decimal digits without a leading
\* zero parses to that number; "" and every other text of the model raise
JsonKnown == {<<>>, <<<<107, 1>>>>}

\* a JSON number, as a value that is not a dict
JsonNumber(n) == <<"number", n>>

IsNumberText(text) ==
    /\ Len(text) >= 1
    /\ \A i \in 1..Len(text) : text[i] \in 48..57
    /\ Len(text) > 1 => text[1] # 48

RECURSIVE DecimalValue(_)
DecimalValue(text) ==
    IF text = <<>> THEN 0
    ELSE 10 * DecimalValue(SubSeq(text, 1, Len(text) - 1)) + (text[Len(text)] - 48)

json_loads_or_empty(text) ==
    IF \E h \in JsonKnown : json_dumps(h) = text
    THEN CHOOSE h \in JsonKnown : json_dumps(h) = text
    ELSE IF IsNumberText(text) THEN JsonNumber(DecimalValue(text))
    ELSE <<>>

-----------------------------------------------------------------------------
(* audio_to_binaric.py: symbol sampling *)

MaxOf(P) == IF Len(P) = 0 THEN 0
            ELSE CHOOSE m \in {P[i] : i \in 1..Len(P)} : \A i \in 1..Len(P) : P[i] <= m

\* a variant with a fixed threshold
ThresholdBits_Absolute(P) == [i \in 1..Len(P) |-> IF P[i] > 1 THEN 1 ELSE 0]

\* a variant whose threshold is not strict
ThresholdBits_NonStrict(P) == [i \in 1..Len(P) |-> IF 5 * P[i] >= MaxOf(P) THEN 1 ELSE 0]

\* [1 if p > max(power) * 0.2 else 0 for p in power]
ThresholdBits(P) == [i \in 1..Len(P) |-> IF 5 * P[i] > MaxOf(P) THEN 1 ELSE 0]

\* spectrogram power of a column at the bin of a tone: a component shows at
\* the bin nearest its tone when it was generated at the rate of the file
BinPower(column, tone, rate) == IF [f |-> tone, fs |-> rate] \in column THEN 1 ELSE 0

RolePower(column, tones, rate) == [i \in 1..Len(tones) |-> BinPower(column, tones[i], rate)]

\* the entry sampled at one transition
SampleColumn(column, plan, rate) ==
    [h |-> ThresholdBits(RolePower(column, plan["header"], rate)),
     c |-> ThresholdBits(RolePower(column, plan["content"], rate)),
     f |-> ThresholdBits(RolePower(column, plan["footer"], rate)),
     m |-> ThresholdBits(RolePower(column, plan["modes"], rate))]

\* a clean channel: one transition per symbol period, at its middle sample
TransitionSamples(w, rate, speed) ==
    LET n == SamplesPer(rate, speed)
    IN  [k \in 1..(Len(w) \div n) |-> (k - 1) * n + (n \div 2) + 1]

SampleAt(w, ts, plan, rate) == [k \in 1..Len(ts) |-> SampleColumn(w[ts[k]], plan, rate)]

extract_bits_from_wav(w, plan, rate, speed) ==
    SampleAt(w, TransitionSamples(w, rate, speed), plan, rate)

RECURSIVE SortedSeq(_)
SortedSeq(S) ==
    IF S = {} THEN <<>>
    ELSE LET m == CHOOSE x \in S : \A y \in S : x <= y
         IN  <<m>> \o SortedSeq(S \ {m})

\* what find_peaks can return on n columns: interior samples, no two adjacent
PeakSets(n) == {P \in SUBSET (2..(n - 1)) : \A x \in P : x + 1 \notin P}

\* lines 62-63, 77: the transitions are the peaks, however many there are;
\* a time is written as the index of its column
detect_clock_edges(pk) == SortedSeq(pk)

\* lines 109-126: the entry of one column of role powers
ColumnBits(col) ==
    [h |-> ThresholdBits(col.h), c |-> ThresholdBits(col.c),
     f |-> ThresholdBits(col.f), m |-> ThresholdBits(col.m)]

\* lines 106-126: one entry per transition time, from the column nearest to it
SampleTransitions(sxx, times) == [k \in 1..Len(times) |-> ColumnBits(sxx[times[k]])]

-----------------------------------------------------------------------------
(* Inputs *)

Headers == {<<>>}                       \* {}
ByteVals == {0, 165}
Contents == SeqsUpTo(ByteVals, MaxContentLen)
FooterChars == {122}                    \* 'z'
Footers == SeqsUpTo(FooterChars, MaxFooterLen)

Requests == {[header |-> h, content |-> b64encode(c), footer |-> f] :
                h \in Headers, c \in Contents, f \in Footers}

Tones(base, n) == [i \in 1..n |-> base + 100 * i]

Plan(side, c, nm) ==
    [clock |-> <<1000, 1200>>, modes |-> SubSeq(<<2000, 2200, 2400>>, 1, nm),
     header |-> Tones(3000, side), content |-> Tones(5000, c), footer |-> Tones(8000, side)]

Plans == {Plan(side, c, 3) : side \in 1..MaxSideTones, c \in 1..MaxContentTones}

\* <<sample_rate, clock_speed>>
Settings == {<<44100, 14700>>, <<22050, 11025>>}

BitVecs(n) == [1..n -> {0, 1}]

EntriesOf(plan) ==
    [h : BitVecs(Len(plan["header"])), c : BitVecs(Len(plan["content"])),
     f : BitVecs(Len(plan["footer"])), m : BitVecs(Len(plan["modes"]))]

NoMap == [s \in {} |-> <<>>]
NoEnvelope == [header |-> <<>>, content |-> <<>>, footer |-> <<>>]

EncIdle ==
    /\ bits = NoMap /\ padded = NoMap /\ symbols = NoMap /\ wave = NoMap
    /\ data_wave = <<>> /\ clock_wave = <<>> /\ full_wave = <<>>

DecIdle ==
    /\ di = 0 /\ header_bits_str = <<>> /\ content_bits_str = <<>>
    /\ footer_bits_str = <<>> /\ binaric_request = NoEnvelope

PadIdle == pad_in = <<>> /\ pad_w = 1 /\ pad_out = <<>>

NoRaw == [base |-> 0, data |-> <<>>]
NoReturn == [is_none |-> TRUE, samples |-> <<>>]

DataIdle ==
    /\ file_request = <<>> /\ header_bitdepth = 0 /\ footer_bitdepth = 0
    /\ header_raw = NoRaw /\ content_raw = NoRaw /\ footer_raw = NoRaw
    /\ reconstructed_request = <<>>

BufIdle == buffer = <<>> /\ calls = <<>> /\ returned = NoReturn

BitsetIdle ==
    bitset_text = <<>> /\ chunk_length = 0 /\ bitset = <<>> /\ bitset_out = <<>>

LibIdle == DataIdle /\ BufIdle /\ BitsetIdle

AuxIdle ==
    /\ conv_kind = "none" /\ conv_in = <<>> /\ conv_bits = <<>> /\ conv_out = <<>>
    /\ Sxx = <<>> /\ peaks = {} /\ transition_times = <<>>
    /\ data = <<>> /\ data_int16 = <<>>
    /\ json_file = NoMap /\ LibIdle

-----------------------------------------------------------------------------
(* The encoder: transcribe_request_to_audio, statement by statement *)

Init ==
    /\ request \in Requests
    /\ freq_config \in Plans
    /\ \E st \in Settings : sample_rate = st[1] /\ clock_speed = st[2]
    /\ pc = "frame" /\ error = "none"
    /\ EncIdle /\ bit_data = <<>> /\ DecIdle /\ PadIdle
    /\ AuxIdle

\* lines 207-224: the three bit strings
Frame ==
    /\ pc = "frame"
    /\ bits' = [s \in SectionSet |->
                  IF s = "header" THEN string_to_bits(json_dumps(request.header))
                  ELSE IF s = "content" THEN bytes_to_bits(b64decode_or_empty(request.content))
                  ELSE string_to_bits(request.footer)]
    /\ pc' = "header"
    /\ UNCHANGED <<inVars, error, padded, symbols, wave, data_wave, clock_wave,
                   full_wave, decVars, padVars, auxVars>>

\* lines 227-229: one section's segment and its mode overlay
EncodeSection(s, k, next) ==
    /\ pc = s
    /\ \E r \in {encode_segment_from_bits(bits[s], freq_config[s], clock_speed, sample_rate)} :
           /\ padded' = IF r.raised = "ZeroDivisionError" THEN padded
                         ELSE (s :> r.padded) @@ padded
           /\ symbols' = IF r.raised = "ZeroDivisionError" THEN symbols
                          ELSE (s :> r.symbols) @@ symbols
           /\ IF r.raised = "none"
              THEN /\ wave' = (s :> add_mode_frequency_overlay(r.segment,
                                                              freq_config["modes"][k])) @@ wave
                   /\ pc' = next
                   /\ error' = error
              ELSE /\ wave' = wave
                   /\ pc' = "failed"
                   /\ error' = r.raised
    /\ UNCHANGED <<inVars, bits, data_wave, clock_wave, full_wave, decVars, padVars, auxVars>>

EncodeHeader == EncodeSection("header", 1, "content")

EncodeContent == EncodeSection("content", 2, "footer")

EncodeFooter == EncodeSection("footer", 3, "concat")

\* a variant that puts the content first
Concat_ContentFirst ==
    /\ pc = "concat"
    /\ data_wave' = wave["content"] \o wave["header"] \o wave["footer"]
    /\ pc' = "clock"
    /\ UNCHANGED <<inVars, error, bits, padded, symbols, wave, clock_wave, full_wave,
                   decVars, padVars, auxVars>>

\* line 231
Concat ==
    /\ pc = "concat"
    /\ data_wave' = wave["header"] \o wave["content"] \o wave["footer"]
    /\ pc' = "clock"
    /\ UNCHANGED <<inVars, error, bits, padded, symbols, wave, clock_wave, full_wave,
                   decVars, padVars, auxVars>>

\* lines 233-238
Clock ==
    /\ pc = "clock"
    /\ clock_wave' = generate_manchester_clock_wave(freq_config["clock"], clock_speed,
                                                    Len(data_wave), sample_rate)
    /\ pc' = "mix"
    /\ UNCHANGED <<inVars, error, bits, padded, symbols, wave, data_wave, full_wave,
                   decVars, padVars, auxVars>>

\* lines 240-241
Mix ==
    /\ pc = "mix"
    /\ \E r \in {np_add(data_wave, clock_wave)} :
           /\ full_wave' = r.value
           /\ error' = r.raised
           /\ pc' = IF r.raised = "none" THEN "sample" ELSE "failed"
    /\ UNCHANGED <<inVars, bits, padded, symbols, wave, data_wave, clock_wave,
                   decVars, padVars, auxVars>>

-----------------------------------------------------------------------------
(* The decoder: decode_binaric_request *)

ModeOn(m_bits, k) == Len(m_bits) >= k /\ m_bits[k] = 1

NoBuffers == [h |-> <<>>, c |-> <<>>, f |-> <<>>]

\* a variant that gates the content on the header mode bit
DeframeEntry_WrongGate(buf, e) ==
    [h |-> IF ModeOn(e.m, 1) THEN buf.h \o e.h ELSE buf.h,
     c |-> IF ModeOn(e.m, 1) THEN buf.c \o e.c ELSE buf.c,
     f |-> IF ModeOn(e.m, 3) THEN buf.f \o e.f ELSE buf.f]

\* a variant that puts the new bits in front
DeframeEntry_Prepend(buf, e) ==
    [h |-> IF ModeOn(e.m, 1) THEN e.h \o buf.h ELSE buf.h,
     c |-> IF ModeOn(e.m, 2) THEN e.c \o buf.c ELSE buf.c,
     f |-> IF ModeOn(e.m, 3) THEN e.f \o buf.f ELSE buf.f]

\* lines 148-155: the body of the loop over bit_data, on the three buffers
DeframeEntry(buf, e) ==
    [h |-> IF ModeOn(e.m, 1) THEN buf.h \o e.h ELSE buf.h,
     c |-> IF ModeOn(e.m, 2) THEN buf.c \o e.c ELSE buf.c,
     f |-> IF ModeOn(e.m, 3) THEN buf.f \o e.f ELSE buf.f]

\* lines 144-155: the whole loop
RECURSIVE DeframeFrom(_, _, _)
DeframeFrom(buf, entries, k) ==
    IF k > Len(entries) THEN buf
    ELSE DeframeFrom(DeframeEntry(buf, entries[k]), entries, k + 1)

\* json.loads returns on this text (it raises on every other text of the model)
JsonParses(text) == (\E h \in JsonKnown : json_dumps(h) = text) \/ IsNumberText(text)

\* a variant in which a header that does not parse empties the whole envelope
Envelope_FatalHeader(buf) ==
    IF JsonParses(bits_to_string(buf.h))
    THEN [header |-> json_loads_or_empty(bits_to_string(buf.h)),
          content |-> b64encode(bits_to_bytes(buf.c)),
          footer |-> bits_to_string(buf.f)]
    ELSE NoEnvelope

\* lines 157-179: the envelope of the three buffers
Envelope(buf) ==
    [header |-> json_loads_or_empty(bits_to_string(buf.h)),
     content |-> b64encode(bits_to_bytes(buf.c)),
     footer |-> bits_to_string(buf.f)]

\* decode_binaric_request on the encoded waveform, over a clean channel
Decode ==
    /\ pc = "sample"
    /\ \E entries \in {extract_bits_from_wav(full_wave, freq_config, sample_rate, clock_speed)} :
       \E buf \in {DeframeFrom(NoBuffers, entries, 1)} :
           /\ bit_data' = entries
           /\ di' = Len(entries)
           /\ header_bits_str' = buf.h
           /\ content_bits_str' = buf.c
           /\ footer_bits_str' = buf.f
           /\ binaric_request' = Envelope(buf)
    /\ pc' = "done"
    /\ UNCHANGED <<inVars, error, encVars, padVars, auxVars>>

\* lines 148-155: one iteration of the loop over bit_data
DeframeStep ==
    /\ pc = "deframe" /\ di < Len(bit_data)
    /\ LET buf == DeframeEntry([h |-> header_bits_str, c |-> content_bits_str,
                                f |-> footer_bits_str], bit_data[di + 1])
       IN  /\ header_bits_str' = buf.h
           /\ content_bits_str' = buf.c
           /\ footer_bits_str' = buf.f
    /\ di' = di + 1
    /\ UNCHANGED <<inVars, pc, error, encVars, bit_data, binaric_request, padVars, auxVars>>

\* lines 157-181: the envelope, once the loop has ended
Finish ==
    /\ pc = "deframe" /\ di = Len(bit_data)
    /\ binaric_request' = Envelope([h |-> header_bits_str, c |-> content_bits_str,
                                    f |-> footer_bits_str])
    /\ pc' = "done"
    /\ UNCHANGED <<inVars, error, encVars, bit_data, di, header_bits_str,
                   content_bits_str, footer_bits_str, padVars, auxVars>>

Next ==
    \/ Frame \/ EncodeHeader \/ EncodeContent \/ EncodeFooter
    \/ Concat \/ Clock \/ Mix
    \/ Decode

Spec == Init /\ [][Next]_vars

-----------------------------------------------------------------------------
(* The deframer of decode_binaric_request, iteration by iteration, on an   *)
(* arbitrary sampled list                                                  *)

\* one tone per data role; none to three mode tones
DecodePlans == {Plan(1, 1, nm) : nm \in 0..3}

InitDecode ==
    /\ request = [header |-> <<>>, content |-> <<>>, footer |-> <<>>]
    /\ freq_config \in DecodePlans
    /\ sample_rate = DefaultSampleRate /\ clock_speed = 14700
    /\ pc = "deframe" /\ error = "none"
    /\ EncIdle /\ DecIdle /\ PadIdle
    /\ AuxIdle
    /\ bit_data \in SeqsUpTo(EntriesOf(freq_config), MaxEntries)

NextDecode == DeframeStep \/ Finish

SpecDecode == InitDecode /\ [][NextDecode]_vars

-----------------------------------------------------------------------------
(* The deframer and the envelope on entries that carry one byte per role   *)

\* eight tones per data role
FramePlan == Plan(ByteWidth, ByteWidth, 3)

\* header bytes '{', '}' and '1', content bytes 0 and 165, footer byte 'z'
FrameEntries ==
    {[h |-> ByteBits(x), c |-> ByteBits(y), f |-> ByteBits(122), m |-> mb] :
        x \in {123, 125, 49}, y \in ByteVals, mb \in BitVecs(3)}

InitFrame ==
    /\ request = [header |-> <<>>, content |-> <<>>, footer |-> <<>>]
    /\ freq_config = FramePlan
    /\ sample_rate = DefaultSampleRate /\ clock_speed = 14700
    /\ pc = "deframe" /\ error = "none"
    /\ EncIdle /\ DecIdle /\ PadIdle
    /\ AuxIdle
    /\ bit_data \in SeqsUpTo(FrameEntries, MaxEntries)

NextFrame == DeframeStep \/ Finish

SpecFrame == InitFrame /\ [][NextFrame]_vars

-----------------------------------------------------------------------------
(* The decoder from the spectrogram on: clock edges, sampling, deframing   *)

\* lines 99: detect_clock_edges
DetectEdges ==
    /\ pc = "edges"
    /\ transition_times' = detect_clock_edges(peaks)
    /\ pc' = "extract"
    /\ UNCHANGED <<inVars, error, encVars, decVars, padVars, convVars, Sxx, peaks,
                   wavVars, json_file, libVars>>

\* lines 106-128: the loop over transition_times
ExtractBits ==
    /\ pc = "extract"
    /\ bit_data' = SampleTransitions(Sxx, transition_times)
    /\ pc' = "deframe"
    /\ UNCHANGED <<inVars, error, encVars, di, header_bits_str, content_bits_str,
                   footer_bits_str, binaric_request, padVars, convVars, sxxVars,
                   wavVars, json_file, libVars>>

\* a role's powers when its tones of the 1 bits sound
PowerOf(bitvec) == [i \in 1..Len(bitvec) |-> 9 * bitvec[i]]

\* a silent column, a content column (byte 165) and a footer column ('z')
EdgeColumns ==
    {[h |-> PowerOf(ByteBits(0)), c |-> PowerOf(ByteBits(0)),
      f |-> PowerOf(ByteBits(0)), m |-> <<0, 0, 0>>],
     [h |-> PowerOf(ByteBits(0)), c |-> PowerOf(ByteBits(165)),
      f |-> PowerOf(ByteBits(0)), m |-> <<0, 9, 0>>],
     [h |-> PowerOf(ByteBits(0)), c |-> PowerOf(ByteBits(0)),
      f |-> PowerOf(ByteBits(122)), m |-> <<0, 0, 9>>]}

InitEdges ==
    /\ request = [header |-> <<>>, content |-> <<>>, footer |-> <<>>]
    /\ freq_config = FramePlan
    /\ sample_rate = DefaultSampleRate /\ clock_speed = 14700
    /\ pc = "edges" /\ error = "none"
    /\ EncIdle /\ bit_data = <<>> /\ DecIdle /\ PadIdle
    /\ conv_kind = "none" /\ conv_in = <<>> /\ conv_bits = <<>> /\ conv_out = <<>>
    /\ data = <<>> /\ data_int16 = <<>> /\ json_file = NoMap /\ LibIdle
    /\ Sxx \in [1..NumColumns -> EdgeColumns]
    /\ peaks \in PeakSets(NumColumns)
    /\ transition_times = <<>>

NextEdges == DetectEdges \/ ExtractBits \/ DeframeStep \/ Finish

SpecEdges == InitEdges /\ [][NextEdges]_vars

-----------------------------------------------------------------------------
(* The sampling of one column, for every combination of role powers        *)

PowerVals == {0, 1, 4, 5}

PowerVecs(n) == [1..n -> PowerVals]

ThresholdPlan == Plan(1, 2, 2)

SilentColumn == [h |-> <<0>>, c |-> <<0, 0>>, f |-> <<0>>, m |-> <<0, 0>>]

InitThreshold ==
    /\ request = [header |-> <<>>, content |-> <<>>, footer |-> <<>>]
    /\ freq_config = ThresholdPlan
    /\ sample_rate = DefaultSampleRate /\ clock_speed = 14700
    /\ pc = "edges" /\ error = "none"
    /\ EncIdle /\ bit_data = <<>> /\ DecIdle /\ PadIdle
    /\ conv_kind = "none" /\ conv_in = <<>> /\ conv_bits = <<>> /\ conv_out = <<>>
    /\ data = <<>> /\ data_int16 = <<>> /\ json_file = NoMap /\ LibIdle
    /\ \E col \in [h : PowerVecs(1), c : PowerVecs(2), f : PowerVecs(1), m : PowerVecs(2)] :
           Sxx = <<SilentColumn, col, SilentColumn>>
    /\ peaks = {2}
    /\ transition_times = <<>>

NextThreshold == DetectEdges \/ ExtractBits \/ DeframeStep \/ Finish

SpecThreshold == InitThreshold /\ [][NextThreshold]_vars

-----------------------------------------------------------------------------
(* write_wav on its own *)

InitWav ==
    /\ request = [header |-> <<>>, content |-> <<>>, footer |-> <<>>]
    /\ freq_config = Plan(1, 1, 3)
    /\ sample_rate = DefaultSampleRate /\ clock_speed = 14700
    /\ pc = "write" /\ error = "none"
    /\ EncIdle /\ bit_data = <<>> /\ DecIdle /\ PadIdle
    /\ conv_kind = "none" /\ conv_in = <<>> /\ conv_bits = <<>> /\ conv_out = <<>>
    /\ Sxx = <<>> /\ peaks = {} /\ transition_times = <<>>
    /\ json_file = NoMap /\ LibIdle
    /\ data \in SeqsUpTo((-MaxAmp)..MaxAmp, MaxWavLen)
    /\ data_int16 = <<>>

WriteWav ==
    /\ pc = "write"
    /\ \E r \in {write_wav(data)} :
           /\ data_int16' = r.value
           /\ error' = r.raised
           /\ pc' = IF r.raised = "none" THEN "done" ELSE "failed"
    /\ UNCHANGED <<inVars, encVars, decVars, padVars, convVars, sxxVars, data, json_file, libVars>>

NextWav == WriteWav

SpecWav == InitWav /\ [][NextWav]_vars

-----------------------------------------------------------------------------
(* The encoder from the loading of the plan on: main *)

\* load_freq_config: whatever json.load returns
load_freq_config(file) == file

BasePlan == Plan(2, 2, 3)

\* two plans that keep the rules of the format, and plans that break one each:
\* an empty tone list, three clock tones, four mode tones, a tone of 0 Hz, a
\* negative tone, a tone above half of either sample rate
PlanFiles ==
    {BasePlan, Plan(1, 3, 3),
     [BasePlan EXCEPT !["header"] = <<>>],
     [BasePlan EXCEPT !["content"] = <<>>],
     [BasePlan EXCEPT !["clock"] = <<1000, 1200, 1400>>],
     [BasePlan EXCEPT !["modes"] = <<2000, 2200, 2400, 2600>>],
     [BasePlan EXCEPT !["footer"] = <<0, 8200>>],
     [BasePlan EXCEPT !["content"] = <<5100, -5200>>],
     [BasePlan EXCEPT !["content"] = <<5100, 23000>>]}

InitPlan ==
    /\ request \in Requests
    /\ json_file \in PlanFiles /\ LibIdle
    /\ freq_config = NoMap
    /\ \E st \in Settings : sample_rate = st[1] /\ clock_speed = st[2]
    /\ pc = "load" /\ error = "none"
    /\ EncIdle /\ bit_data = <<>> /\ DecIdle /\ PadIdle
    /\ conv_kind = "none" /\ conv_in = <<>> /\ conv_bits = <<>> /\ conv_out = <<>>
    /\ Sxx = <<>> /\ peaks = {} /\ transition_times = <<>>
    /\ data = <<>> /\ data_int16 = <<>>

\* line 280
LoadPlan ==
    /\ pc = "load"
    /\ freq_config' = load_freq_config(json_file)
    /\ pc' = "frame"
    /\ UNCHANGED <<request, clock_speed, sample_rate, error, encVars, decVars, padVars,
                   auxVars>>

NextPlan ==
    \/ LoadPlan
    \/ Frame \/ EncodeHeader \/ EncodeContent \/ EncodeFooter
    \/ Concat \/ Clock \/ Mix

SpecPlan == InitPlan /\ [][NextPlan]_vars

-----------------------------------------------------------------------------
(* The sampling of a column and of the same column at another volume       *)

ScalePowers(P, k) == [i \in 1..Len(P) |-> k * P[i]]

ScaleColumn(col, k) ==
    [h |-> ScalePowers(col.h, k), c |-> ScalePowers(col.c, k),
     f |-> ScalePowers(col.f, k), m |-> ScalePowers(col.m, k)]

InitScale ==
    /\ request = [header |-> <<>>, content |-> <<>>, footer |-> <<>>]
    /\ freq_config = ThresholdPlan
    /\ sample_rate = DefaultSampleRate /\ clock_speed = 14700
    /\ pc = "edges" /\ error = "none"
    /\ EncIdle /\ bit_data = <<>> /\ DecIdle /\ PadIdle
    /\ conv_kind = "none" /\ conv_in = <<>> /\ conv_bits = <<>> /\ conv_out = <<>>
    /\ data = <<>> /\ data_int16 = <<>> /\ json_file = NoMap /\ LibIdle
    /\ \E col \in [h : PowerVecs(1), c : PowerVecs(2), f : PowerVecs(1), m : PowerVecs(2)] :
       \E k \in 2..MaxScale :
           Sxx = <<SilentColumn, col, SilentColumn, ScaleColumn(col, k), SilentColumn>>
    /\ peaks = {2, 4}
    /\ transition_times = <<>>

NextScale == DetectEdges \/ ExtractBits \/ DeframeStep \/ Finish

SpecScale == InitScale /\ [][NextScale]_vars

-----------------------------------------------------------------------------
(* decode_binaric.py: the earlier decoder, which has no mode tones *)

\* lines 41-42: the peaks and the midpoints between neighbouring peaks
\* (astype(int) of a half is the floor), sorted
Midpoints(pk) ==
    {(q[1] + q[2]) \div 2 :
        q \in {r \in pk \X pk : r[1] < r[2] /\ ~\E c \in pk : r[1] < c /\ c < r[2]}}

detect_clock_edges_legacy(pk) == SortedSeq(pk \cup Midpoints(pk))

\* lines 95-104: content bits above 0.6 of the content maximum, header bits
\* above 0.3 of the header maximum, footer bits above the content threshold
ColumnBitsLegacy(col) ==
    [h |-> [i \in 1..Len(col.h) |-> IF 10 * col.h[i] > 3 * MaxOf(col.h) THEN 1 ELSE 0],
     c |-> [i \in 1..Len(col.c) |-> IF 10 * col.c[i] > 6 * MaxOf(col.c) THEN 1 ELSE 0],
     f |-> [i \in 1..Len(col.f) |-> IF 10 * col.f[i] > 6 * MaxOf(col.c) THEN 1 ELSE 0]]

\* lines 88-107: one entry per transition time
extract_bits_from_wav_legacy(sxx, times) ==
    [k \in 1..Len(times) |-> ColumnBitsLegacy(sxx[times[k]])]

DetectEdgesLegacy ==
    /\ pc = "edges"
    /\ transition_times' = detect_clock_edges_legacy(peaks)
    /\ pc' = "extract"
    /\ UNCHANGED <<inVars, error, encVars, decVars, padVars, convVars, Sxx, peaks,
                   wavVars, json_file, libVars>>

ExtractBitsLegacy ==
    /\ pc = "extract"
    /\ bit_data' = extract_bits_from_wav_legacy(Sxx, transition_times)
    /\ pc' = "done"
    /\ UNCHANGED <<inVars, error, encVars, di, header_bits_str, content_bits_str,
                   footer_bits_str, binaric_request, padVars, convVars, sxxVars,
                   wavVars, json_file, libVars>>

LegacyPlan == [Plan(1, 2, 0) EXCEPT !["footer"] = Tones(8000, 2)]

InitLegacy ==
    /\ request = [header |-> <<>>, content |-> <<>>, footer |-> <<>>]
    /\ freq_config = LegacyPlan
    /\ sample_rate = DefaultSampleRate /\ clock_speed = 10
    /\ pc = "edges" /\ error = "none"
    /\ EncIdle /\ bit_data = <<>> /\ DecIdle /\ PadIdle
    /\ conv_kind = "none" /\ conv_in = <<>> /\ conv_bits = <<>> /\ conv_out = <<>>
    /\ data = <<>> /\ data_int16 = <<>> /\ json_file = NoMap /\ LibIdle
    /\ \E col \in [h : PowerVecs(1), c : PowerVecs(2), f : PowerVecs(2)] :
           Sxx = <<[h |-> <<0>>, c |-> <<0, 0>>, f |-> <<0, 0>>], col, col, col,
                   [h |-> <<0>>, c |-> <<0, 0>>, f |-> <<0, 0>>]>>
    /\ peaks \in {{2}, {2, 4}}
    /\ transition_times = <<>>

NextLegacy == DetectEdgesLegacy \/ ExtractBitsLegacy

SpecLegacy == InitLegacy /\ [][NextLegacy]_vars

-----------------------------------------------------------------------------
(* binaric_data.py: digits in a base, RawData, header, content and footer *)

\* lines 8-15: the digits of n >= 0, most significant first ([0] for 0)
RECURSIVE Digits(_, _)
Digits(n, base) ==
    IF n < base THEN <<n>> ELSE Append(Digits(n \div base, base), n % base)

\* a variant that never pads
int_to_base_NoPad(n, base, pad) == Digits(n, base)

int_to_base(n, base, pad) ==
    IF pad > Len(Digits(n, base))
    THEN Repeat(0, pad - Len(Digits(n, base))) \o Digits(n, base)
    ELSE Digits(n, base)

RECURSIVE base_to_int(_, _)
base_to_int(digits, base) ==
    IF digits = <<>> THEN 0
    ELSE base_to_int(SubSeq(digits, 1, Len(digits) - 1), base) * base + digits[Len(digits)]

\* math.ceil(math.log(256, base)): the number of times base is multiplied
\* until the product reaches 256 (the float quotient of the two logarithms
\* ceils to this count for every base from 2 to 1999)
RECURSIVE CeilLog(_, _, _)
CeilLog(base, d, product) ==
    IF product >= ByteRange THEN d ELSE CeilLog(base, d + 1, product * base)

digits_per_byte(base) == CeilLog(base, 0, 1)

RawData(base, raw_digits) == [base |-> base, data |-> raw_digits]

\* str(n) of an integer n >= 0
RECURSIVE Decimal(_)
Decimal(n) == IF n < 10 THEN <<48 + n>> ELSE Append(Decimal(n \div 10), 48 + (n % 10))

JsonString(str) == <<34>> \o str \o <<34>>

\* "key": followed by a space and the value text
JsonMember(key, value_text) == JsonString(key) \o <<58, 32>> \o value_text

\* json.dumps(info) of lines 70-77; metadata is the empty dict
json_dumps_info(info) ==
    <<123>>
    \o JsonMember(<<102, 105, 108, 101, 95, 110, 97, 109, 101>>, JsonString(info.file_name))
    \o <<44, 32>>
    \o JsonMember(<<102, 105, 108, 101, 95, 115, 105, 122, 101>>, Decimal(info.file_size))
    \o <<44, 32>>
    \o JsonMember(<<102, 105, 108, 101, 95, 116, 121, 112, 101>>, JsonString(info.file_type))
    \o <<44, 32>>
    \o JsonMember(<<99, 111, 110, 116, 101, 110, 116, 95, 98, 97, 115, 101>>,
                  Decimal(info.content_base))
    \o <<44, 32>>
    \o JsonMember(<<109, 101, 116, 97, 100, 97, 116, 97>>, <<123, 125>>)
    \o <<125>>

\* the headers of the model: file "a" of type "t"
Info(size, base) ==
    [file_name |-> <<97>>, file_size |-> size, file_type |-> <<116>>,
     content_base |-> base, metadata |-> <<>>]

DigitBases == {2, 3, 4, 7, 15, 16, 17, 255, 256, 257}

Infos == {Info(size, base) : size \in 0..(MaxFileLen + 1), base \in DigitBases}

\* json.loads of a text: the info it is the dump of, else JSONDecodeError
json_loads_info(text) ==
    IF \E info \in Infos : json_dumps_info(info) = text
    THEN [raised |-> "none", value |-> CHOOSE info \in Infos : json_dumps_info(info) = text]
    ELSE [raised |-> "JSONDecodeError", value |-> <<>>]

\* lines 81-83 and 124-126: every byte as digits_per_byte digits
BytesToDigits(b, base) ==
    Flatten([i \in 1..Len(b) |-> int_to_base(b[i], base, digits_per_byte(base))])

\* lines 96-99 and 137-140: every group of d digits as one byte value
DigitsToBytes(digits, base, d) ==
    [i \in 1..(Len(digits) \div d) |-> base_to_int(SubSeq(digits, (i - 1) * d + 1, i * d), base)]

BinaricHeader_to_raw(header, base) ==
    RawData(base, BytesToDigits(Utf8Encode(json_dumps_info(header)), base))

BinaricHeader_from_raw(raw_data, base) ==
    IF Len(raw_data.data) % digits_per_byte(base) # 0
    THEN [raised |-> "ValueError", value |-> <<>>]
    ELSE json_loads_info(DigitsToBytes(raw_data.data, base, digits_per_byte(base)))

BinaricContent_to_raw(content, base) == RawData(base, BytesToDigits(content, base))

BinaricContent_from_raw(raw_data, base) ==
    IF Len(raw_data.data) % digits_per_byte(base) # 0
    THEN [raised |-> "ValueError", value |-> <<>>]
    ELSE [raised |-> "none",
          value |-> DigitsToBytes(raw_data.data, base, digits_per_byte(base))]

\* a checksum is <<>> for None and <<n>> for the integer n
NoChecksum == <<>>

BinaricFooter_to_raw(footer, base) ==
    RawData(base, IF footer.checksum # NoChecksum
                  THEN int_to_base(footer.checksum[1], base, 0) ELSE <<>>)

BinaricFooter_from_raw(raw_data, base) ==
    [checksum |-> IF raw_data.data # <<>> THEN <<base_to_int(raw_data.data, base)>>
                  ELSE NoChecksum]

\* lines 208-212, given the header that from_raw returned
FromBinaricWith(hdr, c_raw, f_raw, bitdepth) ==
    IF hdr.raised # "none" THEN [raised |-> hdr.raised, value |-> <<>>]
    ELSE IF BinaricContent_from_raw(c_raw, hdr.value.content_base).raised # "none"
         THEN [raised |-> "ValueError", value |-> <<>>]
    ELSE [raised |-> "none",
          value |-> [header |-> hdr.value,
                     content |-> BinaricContent_from_raw(c_raw, hdr.value.content_base).value,
                     footer |-> BinaricFooter_from_raw(f_raw, bitdepth)]]

from_binaric(h_raw, c_raw, f_raw, bitdepth) ==
    FromBinaricWith(BinaricHeader_from_raw(h_raw, bitdepth), c_raw, f_raw, bitdepth)

ToBinaric ==
    /\ pc = "to_binaric"
    /\ header_raw' = BinaricHeader_to_raw(file_request.header, header_bitdepth)
    /\ content_raw' = BinaricContent_to_raw(file_request.content,
                                            file_request.header.content_base)
    /\ footer_raw' = BinaricFooter_to_raw(file_request.footer, footer_bitdepth)
    /\ pc' = "from_binaric"
    /\ UNCHANGED <<inVars, error, encVars, decVars, padVars, convVars, sxxVars, wavVars,
                   json_file, file_request, header_bitdepth, footer_bitdepth,
                   reconstructed_request, bufVars, bitsetVars>>

FromBinaric ==
    /\ pc = "from_binaric"
    /\ \E r \in {from_binaric(header_raw, content_raw, footer_raw, header_bitdepth)} :
          IF r.raised = "none"
          THEN reconstructed_request' = r.value /\ pc' = "done" /\ UNCHANGED error
          ELSE error' = r.raised /\ pc' = "failed" /\ UNCHANGED reconstructed_request
    /\ UNCHANGED <<inVars, encVars, decVars, padVars, convVars, sxxVars, wavVars,
                   json_file, file_request, header_bitdepth, footer_bitdepth,
                   header_raw, content_raw, footer_raw, bufVars, bitsetVars>>

Bitdepths == 2..MaxBitdepth
Checksums == {NoChecksum} \cup {<<n>> : n \in 0..MaxChecksum}
FileContents == SeqsUpTo(ByteVals, MaxFileLen)

\* everything outside the library under study at rest
RestIdle ==
    /\ request = [header |-> <<>>, content |-> <<>>, footer |-> <<>>]
    /\ freq_config = Plan(1, 1, 3)
    /\ sample_rate = DefaultSampleRate /\ clock_speed = 14700
    /\ error = "none"
    /\ EncIdle /\ bit_data = <<>> /\ DecIdle /\ PadIdle
    /\ conv_kind = "none" /\ conv_in = <<>> /\ conv_bits = <<>> /\ conv_out = <<>>
    /\ Sxx = <<>> /\ peaks = {} /\ transition_times = <<>>
    /\ data = <<>> /\ data_int16 = <<>> /\ json_file \in {NoMap}

\* requests with any bit depths and checksum, and requests of one byte of
\* every value in every content base
InitRaw ==
    /\ RestIdle /\ BufIdle /\ BitsetIdle
    /\ pc = "to_binaric"
    /\ header_raw = NoRaw /\ content_raw = NoRaw /\ footer_raw = NoRaw
    /\ reconstructed_request = <<>>
    /\ \/ /\ header_bitdepth \in Bitdepths /\ footer_bitdepth \in Bitdepths
          /\ \E c \in FileContents, k \in Checksums :
                file_request = [header |-> Info(Len(c), 16), content |-> c,
                                footer |-> [checksum |-> k]]
       \/ /\ header_bitdepth = 3 /\ footer_bitdepth = 3
          /\ \E n \in 0..(ByteRange - 1), base \in DigitBases :
                file_request = [header |-> Info(1, base), content |-> <<n>>,
                                footer |-> [checksum |-> NoChecksum]]

NextRaw == ToBinaric \/ FromBinaric

SpecRaw == InitRaw /\ [][NextRaw]_vars

-----------------------------------------------------------------------------
(* AudioBuffer.py: the sample buffer of binaric2 *)

\* one int16 of two bytes, low byte first
Int16(lo, hi) ==
    IF lo + ByteRange * hi >= Int16Range \div 2
    THEN lo + ByteRange * hi - Int16Range ELSE lo + ByteRange * hi

\* np.frombuffer(chunk, dtype=np.int16): a chunk of an odd number of bytes
\* raises ValueError
np_frombuffer(chunk) ==
    IF Len(chunk) % 2 # 0 THEN [raised |-> "ValueError", value |-> <<>>]
    ELSE [raised |-> "none",
          value |-> [i \in 1..(Len(chunk) \div 2) |-> Int16(chunk[2 * i - 1], chunk[2 * i])]]

\* a variant that keeps only the new samples
append_chunk_Replace(buf, chunk) ==
    [raised |-> np_frombuffer(chunk).raised,
     value |-> IF np_frombuffer(chunk).raised = "none" THEN np_frombuffer(chunk).value
               ELSE buf]

\* lines 64-65: the buffer after the call
append_chunk(buf, chunk) ==
    [raised |-> np_frombuffer(chunk).raised,
     value |-> IF np_frombuffer(chunk).raised = "none"
               THEN buf \o np_frombuffer(chunk).value ELSE buf]

\* lines 77-79: buffer[-chunk_size:] is the whole buffer when chunk_size is 0
get_latest_chunk(buf, chunk_size) ==
    IF Len(buf) < chunk_size THEN [is_none |-> TRUE, samples |-> <<>>]
    ELSE [is_none |-> FALSE,
          samples |-> IF chunk_size = 0 THEN buf
                      ELSE SubSeq(buf, Len(buf) - chunk_size + 1, Len(buf))]

ChunkBytes == {1, 255}
Chunks == SeqsUpTo(ChunkBytes, MaxChunkBytes)

Call(op, arg, raised) == [op |-> op, arg |-> arg, raised |-> raised]

AppendChunk ==
    /\ pc = "buffer" /\ Len(calls) < MaxCalls
    /\ \E chunk \in Chunks :
          \E r \in {append_chunk(buffer, chunk)} :
             /\ buffer' = r.value
             /\ error' = r.raised
             /\ calls' = Append(calls, Call("append_chunk", chunk, r.raised))
    /\ UNCHANGED <<inVars, pc, encVars, decVars, padVars, convVars, sxxVars, wavVars,
                   json_file, dataVars, returned, bitsetVars>>

GetLatestChunk ==
    /\ pc = "buffer" /\ Len(calls) < MaxCalls
    /\ \E chunk_size \in 0..MaxChunkSize :
          /\ returned' = get_latest_chunk(buffer, chunk_size)
          /\ calls' = Append(calls, Call("get_latest_chunk", <<chunk_size>>, "none"))
    /\ error' = "none"
    /\ UNCHANGED <<inVars, pc, encVars, decVars, padVars, convVars, sxxVars, wavVars,
                   json_file, dataVars, buffer, bitsetVars>>

Clear ==
    /\ pc = "buffer" /\ Len(calls) < MaxCalls
    /\ buffer' = <<>>
    /\ calls' = Append(calls, Call("clear", <<>>, "none"))
    /\ error' = "none"
    /\ UNCHANGED <<inVars, pc, encVars, decVars, padVars, convVars, sxxVars, wavVars,
                   json_file, dataVars, returned, bitsetVars>>

InitBuffer ==
    /\ RestIdle /\ DataIdle /\ BitsetIdle
    /\ pc = "buffer"
    /\ buffer = <<>> /\ calls = <<>> /\ returned = NoReturn

NextBuffer == AppendChunk \/ GetLatestChunk \/ Clear

SpecBuffer == InitBuffer /\ [][NextBuffer]_vars

-----------------------------------------------------------------------------
(* pad_bits on its own *)

BitStrings == SeqsUpTo({0, 1}, MaxPadBits)

InitPad ==
    /\ request = [header |-> <<>>, content |-> <<>>, footer |-> <<>>]
    /\ freq_config = Plan(1, 1, 3)
    /\ sample_rate = DefaultSampleRate /\ clock_speed = 14700
    /\ pc = "pad" /\ error = "none"
    /\ EncIdle /\ bit_data = <<>> /\ DecIdle
    /\ pad_in \in BitStrings /\ pad_w \in 1..MaxGroup /\ pad_out = <<>>
    /\ AuxIdle

\* pad_bits applied to the input, then to its own result
ApplyPadBits ==
    /\ pc = "pad" /\ Len(pad_out) < 2
    /\ pad_out' = Append(pad_out,
                         pad_bits(IF pad_out = <<>> THEN pad_in ELSE pad_out[Len(pad_out)],
                                  pad_w))
    /\ UNCHANGED <<inVars, pc, error, encVars, decVars, pad_in, pad_w, auxVars>>

NextPad == ApplyPadBits

SpecPad == InitPad /\ [][NextPad]_vars

-----------------------------------------------------------------------------
(* The encoder at a clock speed that does not divide the sample rate *)

\* <<sample_rate, clock_speed>>; int(44100 * (1.0 / 16000)) is 2
CountSettings == {<<44100, 14700>>, <<44100, 16000>>}

InitCount ==
    /\ request \in Requests
    /\ freq_config \in Plans
    /\ \E st \in CountSettings : sample_rate = st[1] /\ clock_speed = st[2]
    /\ pc = "frame" /\ error = "none"
    /\ EncIdle /\ bit_data = <<>> /\ DecIdle /\ PadIdle
    /\ AuxIdle

NextCount ==
    \/ Frame \/ EncodeHeader \/ EncodeContent \/ EncodeFooter
    \/ Concat \/ Clock \/ Mix

SpecCount == InitCount /\ [][NextCount]_vars

-----------------------------------------------------------------------------
(* The bit conversions on their own: bytes_to_bits and string_to_bits of   *)
(* the encoder, bits_to_bytes and bits_to_string of the decoder            *)

ByteSamples == {0, 1, 128, 165, 255}
ByteStrings == SeqsUpTo(ByteSamples, MaxConvBytes)
TextChars == {122, 233, 8364}           \* 'z', U+00E9, U+20AC
Texts == SeqsUpTo(TextChars, MaxText)

\* every bit string up to MaxRawBits, and whole bytes followed by a shorter group
ConvBitStrings ==
    SeqsUpTo({0, 1}, MaxRawBits)
        \cup {bytes_to_bits(b) \o t : b \in ByteStrings, t \in SeqsUpTo({0, 1}, ByteWidth - 1)}

InitConv ==
    /\ request = [header |-> <<>>, content |-> <<>>, footer |-> <<>>]
    /\ freq_config = Plan(1, 1, 3)
    /\ sample_rate = DefaultSampleRate /\ clock_speed = 14700
    /\ error = "none"
    /\ EncIdle /\ bit_data = <<>> /\ DecIdle /\ PadIdle
    /\ Sxx = <<>> /\ peaks = {} /\ transition_times = <<>>
    /\ data = <<>> /\ data_int16 = <<>> /\ json_file = NoMap /\ LibIdle
    /\ conv_out = <<>>
    /\ \/ conv_kind = "bits" /\ conv_in \in ConvBitStrings /\ conv_bits = conv_in
          /\ pc = "decode"
       \/ conv_kind = "bytes" /\ conv_in \in ByteStrings /\ conv_bits = <<>>
          /\ pc = "encode"
       \/ conv_kind = "text" /\ conv_in \in Texts /\ conv_bits = <<>>
          /\ pc = "encode"

BytesToBits ==
    /\ pc = "encode" /\ conv_kind = "bytes"
    /\ conv_bits' = bytes_to_bits(conv_in)
    /\ pc' = "decode"
    /\ UNCHANGED <<inVars, error, encVars, decVars, padVars, conv_kind, conv_in, conv_out,
                   sxxVars, wavVars, json_file, libVars>>

StringToBits ==
    /\ pc = "encode" /\ conv_kind = "text"
    /\ conv_bits' = string_to_bits(conv_in)
    /\ pc' = "decode"
    /\ UNCHANGED <<inVars, error, encVars, decVars, padVars, conv_kind, conv_in, conv_out,
                   sxxVars, wavVars, json_file, libVars>>

BitsToBytes ==
    /\ pc = "decode" /\ conv_kind \in {"bits", "bytes"}
    /\ conv_out' = bits_to_bytes(conv_bits)
    /\ pc' = "done"
    /\ UNCHANGED <<inVars, error, encVars, decVars, padVars, conv_kind, conv_in, conv_bits,
                   sxxVars, wavVars, json_file, libVars>>

BitsToString ==
    /\ pc = "decode" /\ conv_kind = "text"
    /\ conv_out' = bits_to_string(conv_bits)
    /\ pc' = "done"
    /\ UNCHANGED <<inVars, error, encVars, decVars, padVars, conv_kind, conv_in, conv_bits,
                   sxxVars, wavVars, json_file, libVars>>

NextConv == BytesToBits \/ StringToBits \/ BitsToBytes \/ BitsToString

SpecConv == InitConv /\ [][NextConv]_vars

-----------------------------------------------------------------------------
(* transmit.py: a text as a nested bit list and back *)

\* format(ord(char), '08b'): the binary digits of the code point, padded with
\* zeros on the left to 8 digits and longer than 8 for code points above 255
format_08b(cp) ==
    IF Len(Digits(cp, 2)) < ByteWidth
    THEN Repeat(0, ByteWidth - Len(Digits(cp, 2))) \o Digits(cp, 2)
    ELSE Digits(cp, 2)

\* lines 13-17: the bits of all characters, cut into chunks of chunk_length
string_to_bitset(str, len) ==
    SplitSymbols(Flatten([i \in 1..Len(str) |-> format_08b(str[i])]), len)

\* lines 23-27: the bits of all chunks, cut into groups of 8 (the last group
\* may be shorter), each group read as one character
bitset_to_string(chunks) ==
    [k \in 1..((Len(Flatten(chunks)) + ByteWidth - 1) \div ByteWidth) |->
        BitsValue(SubSeq(Flatten(chunks), ByteWidth * (k - 1) + 1,
                         Min(ByteWidth * k, Len(Flatten(chunks)))))]

StringToBitset ==
    /\ pc = "to_bitset"
    /\ bitset' = string_to_bitset(bitset_text, chunk_length)
    /\ pc' = "to_string"
    /\ UNCHANGED <<inVars, error, encVars, decVars, padVars, convVars, sxxVars, wavVars,
                   json_file, dataVars, bufVars, bitset_text, chunk_length, bitset_out>>

BitsetToString ==
    /\ pc = "to_string"
    /\ bitset_out' = bitset_to_string(bitset)
    /\ pc' = "done"
    /\ UNCHANGED <<inVars, error, encVars, decVars, padVars, convVars, sxxVars, wavVars,
                   json_file, dataVars, bufVars, bitset_text, chunk_length, bitset>>

InitBitset ==
    /\ RestIdle /\ DataIdle /\ BufIdle
    /\ pc = "to_bitset"
    /\ bitset_text \in Texts
    /\ chunk_length \in 1..MaxChunkLength
    /\ bitset = <<>> /\ bitset_out = <<>>

NextBitset == StringToBitset \/ BitsetToString

SpecBitset == InitBitset /\ [][NextBitset]_vars

-----------------------------------------------------------------------------
(* Properties *)

\* a tone sounds in a sample of the output file when the sample holds its
\* sine on the time axis of the file
Sounds(x, tone) == [f |-> tone, fs |-> sample_rate] \in x

Concatenated == pc \in {"clock", "mix", "sample", "done"}

NumSymbols(s) == Len(symbols[s])

\* the section and the symbol at overall symbol index k (from 1)
SectionAt(k) ==
    IF k <= NumSymbols("header") THEN "header"
    ELSE IF k <= NumSymbols("header") + NumSymbols("content") THEN "content"
    ELSE "footer"

SymbolAt(k) ==
    IF k <= NumSymbols("header") THEN symbols["header"][k]
    ELSE IF k <= NumSymbols("header") + NumSymbols("content")
         THEN symbols["content"][k - NumSymbols("header")]
    ELSE symbols["footer"][k - NumSymbols("header") - NumSymbols("content")]

ModeIndex(s) == IF s = "header" THEN 1 ELSE IF s = "content" THEN 2 ELSE 3

ContentBytes == b64decode_or_empty(request.content)

\* every transmitted symbol was sampled exactly once, the content bits of the
\* content symbols were read as sent and the content mode bit was read as set
\* on exactly the content symbols
ContentReadCleanly ==
    /\ Len(bit_data) = NumSymbols("header") + NumSymbols("content") + NumSymbols("footer")
    /\ \A k \in 1..Len(bit_data) :
          /\ (bit_data[k].m[2] = 1) <=> (SectionAt(k) = "content")
          /\ SectionAt(k) = "content" => bit_data[k].c = SymbolAt(k)

\* C1: on a clean channel the decoded content bytes equal the content bytes
\* sent, for every content symbol width: the zero padding never shows up as
\* extra decoded bytes.
C1_ContentRoundTrip ==
    (pc = "done" /\ ContentReadCleanly)
        => /\ bits_to_bytes(content_bits_str) = ContentBytes
           /\ bits_to_bytes(pad_bits(bytes_to_bits(ContentBytes),
                                     Len(freq_config["content"]))) = ContentBytes
           /\ binaric_request.content = request.content

\* C2: in each section the padded bit string that is cut into symbols has a
\* length that is a multiple of the number of tones of the section, and every
\* symbol has exactly that many bits.
C2_SymbolWidth ==
    \A s \in DOMAIN padded :
        LET w == Len(freq_config[s])
        IN  /\ Len(padded[s]) % w = 0
            /\ Len(symbols[s]) * w = Len(padded[s])
            /\ \A k \in 1..Len(symbols[s]) :
                  /\ Len(symbols[s][k]) = w
                  /\ \A i \in 1..w : symbols[s][k][i] = padded[s][(k - 1) * w + i]

C2_Witness ==
    \E s \in DOMAIN padded :
        /\ Len(bits[s]) % Len(freq_config[s]) # 0
        /\ Len(padded[s]) > Len(bits[s])
        /\ Len(symbols[s]) >= 2

\* C3: pad_bits only appends at the tail: the input is a prefix of the output,
\* every appended bit is 0, fewer than group_size bits are appended, a string
\* whose length is a multiple of group_size is returned unchanged, and padding
\* a padded string changes nothing.
C3_PadBitsTail ==
    /\ Len(pad_out) >= 1 =>
          LET out == pad_out[1]
          IN  /\ Len(out) >= Len(pad_in)
              /\ SubSeq(out, 1, Len(pad_in)) = pad_in
              /\ \A i \in (Len(pad_in) + 1)..Len(out) : out[i] = 0
              /\ Len(out) - Len(pad_in) < pad_w
              /\ (Len(pad_in) % pad_w = 0 => out = pad_in)
    /\ Len(pad_out) >= 2 => pad_out[2] = pad_out[1]

C3_Witness ==
    /\ Len(pad_out) = 2
    /\ pad_in # <<>>
    /\ Len(pad_out[1]) = Len(pad_in) + 2

EmptyRequest == [header |-> <<>>, content |-> <<>>, footer |-> <<>>]

\* C4: encoding the empty message (header {}, no content, empty footer)
\* completes without error, and decoding the waveform returns header {},
\* empty content and the empty footer.
C4_EmptyMessage ==
    request = EmptyRequest =>
        /\ pc # "failed" /\ error = "none"
        /\ pc = "done" => binaric_request = EmptyRequest

\* C5: the symbol synthesizer applied to an empty bit string returns an
\* empty sample buffer as a normal result, not an error.
C5_EmptyBitsEmptyBuffer ==
    \A s \in DOMAIN padded :
        bits[s] = <<>> => /\ error = "none"
                          /\ s \in DOMAIN wave
                          /\ wave[s] = <<>>

\* C6: each entry the deframer walks is appended to the header buffer iff
\* m[0] = 1, to the content buffer iff m[1] = 1 and to the footer buffer iff
\* m[2] = 1, each gate on its own; a buffer whose mode bit is 0 or missing is
\* left unchanged by that entry.
C6_ModeGating ==
    [][(pc = "deframe" /\ di' = di + 1) =>
          LET e == bit_data[di + 1]
              on(k) == Len(e.m) >= k /\ e.m[k] = 1
          IN  /\ on(1) => header_bits_str' = header_bits_str \o e.h
              /\ ~on(1) => header_bits_str' = header_bits_str
              /\ on(2) => content_bits_str' = content_bits_str \o e.c
              /\ ~on(2) => content_bits_str' = content_bits_str
              /\ on(3) => footer_bits_str' = footer_bits_str \o e.f
              /\ ~on(3) => footer_bits_str' = footer_bits_str]_vars

\* the first entry, with mode bits [1, 1] and no footer bit, has been walked
C6_Witness ==
    /\ pc = "deframe" /\ di = 1
    /\ bit_data[1].m = <<1, 1>>
    /\ header_bits_str = bit_data[1].h /\ header_bits_str # <<>>
    /\ content_bits_str = bit_data[1].c /\ content_bits_str # <<>>
    /\ footer_bits_str = <<>>

\* C7: at every sample of the encoded waveform exactly one of the three mode
\* tones sounds, and it is modes[k] iff the sample lies in section k.
C7_ModeCarrier ==
    Concatenated =>
        \A p \in 1..Len(data_wave) :
            \A k \in 1..3 :
                Sounds(data_wave[p], freq_config["modes"][k])
                    <=> k = ModeIndex(SectionAt(((p - 1) \div SamplesPer(sample_rate, clock_speed)) + 1))

\* C8: in the encoder output the header symbols come first, then the content
\* symbols, then the footer symbols, each section's symbols in the order of
\* its bit groups, every symbol on its own samples_per_symbol samples with no
\* gap and no overlap.
C8_SectionOrder ==
    Concatenated =>
        LET n == SamplesPer(sample_rate, clock_speed)
            total == NumSymbols("header") + NumSymbols("content") + NumSymbols("footer")
        IN  /\ Len(data_wave) = n * total
            /\ \A p \in 1..Len(data_wave) :
                  LET k == ((p - 1) \div n) + 1
                  IN  \A s \in SectionSet :
                         \A i \in 1..Len(freq_config[s]) :
                            Sounds(data_wave[p], freq_config[s][i])
                               <=> (SectionAt(k) = s /\ SymbolAt(k)[i] = 1)

\* the output holds two different symbols in each section
C8_Witness ==
    /\ Concatenated
    /\ \A s \in SectionSet :
          /\ NumSymbols(s) >= 2
          /\ symbols[s][1] # symbols[s][2]

\* C9: in the k-th symbol of a section, tone tones[i] sounds iff bit k*w + i
\* of the section's padded bit string is 1, for every tone of the section.
C9_BitToTone ==
    \A s \in DOMAIN wave :
        LET w == Len(freq_config[s])
            n == SamplesPer(sample_rate, clock_speed)
        IN  \A p \in 1..Len(wave[s]) :
               LET k == (p - 1) \div n
               IN  \A i \in 1..w :
                      Sounds(wave[s][p], freq_config[s][i]) <=> padded[s][k * w + i] = 1

\* a section waveform with a symbol in which some tones sound and others do not
C9_Witness ==
    \E s \in DOMAIN wave :
        \E k \in 1..Len(symbols[s]) :
            /\ Len(wave[s]) >= k * SamplesPer(sample_rate, clock_speed)
            /\ \E i, j \in 1..Len(symbols[s][k]) :
                  symbols[s][k][i] = 1 /\ symbols[s][k][j] = 0

\* the bits of the first n entries whose mode bit k is 1, in list order
GatedBits(n, k, role) ==
    Flatten([j \in 1..n |->
                IF Len(bit_data[j].m) >= k /\ bit_data[j].m[k] = 1
                THEN bit_data[j][role] ELSE <<>>])

\* C10: while and after the deframer walks the sampled list, each of the three
\* buffers is the concatenation, in list order, of the bits of exactly the
\* walked entries whose mode bit is 1: nothing reordered, dropped or doubled.
C10_DeframeOrder ==
    /\ header_bits_str = GatedBits(di, 1, "h")
    /\ content_bits_str = GatedBits(di, 2, "c")
    /\ footer_bits_str = GatedBits(di, 3, "f")
    /\ pc = "done" => di = Len(bit_data)

\* two entries with different header bits, both gated in, have been walked
C10_Witness ==
    /\ pc = "done" /\ Len(bit_data) = 2
    /\ bit_data[1].m = <<1, 0, 1>> /\ bit_data[2].m = <<1, 1, 0>>
    /\ bit_data[1].h # bit_data[2].h
    /\ header_bits_str = bit_data[1].h \o bit_data[2].h

\* C11: bits_to_bytes on a bit string of length n returns floor(n/8) bytes,
\* byte j being the MSB-first value of bits 8j..8j+7, a trailing group of
\* fewer than 8 bits being discarded; and bits_to_bytes(bytes_to_bits(b)) = b.
C11_ByteGrouping ==
    (pc = "done" /\ conv_kind \in {"bits", "bytes"}) =>
        /\ Len(conv_out) = Len(conv_bits) \div 8
        /\ \A j \in 1..Len(conv_out) :
              LET bit(i) == conv_bits[8 * (j - 1) + i]
              IN  conv_out[j] = 128 * bit(1) + 64 * bit(2) + 32 * bit(3) + 16 * bit(4)
                                  + 8 * bit(5) + 4 * bit(6) + 2 * bit(7) + bit(8)
        /\ conv_kind = "bytes" => conv_out = conv_in

\* two different bytes and a discarded shorter group
C11_Witness ==
    /\ pc = "done" /\ conv_kind = "bits"
    /\ Len(conv_bits) % 8 # 0
    /\ Len(conv_out) = 2 /\ conv_out[1] = 165 /\ conv_out[2] = 1

\* C12: whenever the decoded header text does not parse as JSON (the empty
\* text included), the decoder still returns an envelope: its header is the
\* empty object, and its content and footer are what their own bit buffers
\* decode to.
C12_HeaderFailureNotFatal ==
    (pc = "done" /\ ~JsonParses(bits_to_string(header_bits_str))) =>
        /\ error = "none"
        /\ binaric_request.header = <<>>
        /\ binaric_request.content = b64encode(bits_to_bytes(GatedBits(Len(bit_data), 2, "c")))
        /\ binaric_request.footer = bits_to_string(GatedBits(Len(bit_data), 3, "f"))

\* the header text is "{", the content is the byte 165 and the footer is "z"
C12_Witness ==
    /\ pc = "done"
    /\ bits_to_string(header_bits_str) = <<123>>
    /\ binaric_request.header = <<>>
    /\ binaric_request.content = b64encode(<<165>>)
    /\ binaric_request.footer = <<122>>

\* C13: for every footer string F, also with code points above 127, decoding
\* the bits of string_to_bits(F) returns F.
C13_FooterRoundTrip ==
    (pc = "done" /\ conv_kind = "text") => conv_out = conv_in

\* the clock synthesizer has returned
ClockDone == pc \in {"mix", "sample", "done"} \/ (pc = "failed" /\ data_wave # <<>>)

\* C14: every clock period of the clock waveform consists of two half-periods,
\* the first at clock_tones[0] and the second at clock_tones[1], so the
\* sounding clock tone changes at every half-period boundary.
C14_ClockPattern ==
    ClockDone =>
        LET n == SamplesPer(sample_rate, clock_speed)
        IN  \A p \in 1..Len(clock_wave) :
               LET first == ((p - 1) % n) < (n \div 2)
               IN  /\ Sounds(clock_wave[p], freq_config["clock"][1]) <=> first
                   /\ Sounds(clock_wave[p], freq_config["clock"][2]) <=> ~first

\* C15: the clock waveform has exactly as many samples as the concatenated
\* data waveform, so the sample-wise sum data + clock is always defined.
C15_ClockLength ==
    ClockDone => /\ Len(clock_wave) = Len(data_wave)
                 /\ error = "none"

\* C16: when clock recovery detects fewer than two edges, detect_clock_edges
\* returns an empty transition list and the decoder returns the empty
\* envelope without an error.
C16_TooFewEdges ==
    (pc # "edges" /\ Cardinality(peaks) < 2) =>
        /\ transition_times = <<>>
        /\ error = "none"
        /\ pc = "done" => binaric_request = NoEnvelope

\* the bits of role powers P by the rule of the claim
RuleHolds(P, rbits) ==
    /\ Len(rbits) = Len(P)
    /\ \A i \in 1..Len(P) :
          (rbits[i] = 1) <=> (\A j \in 1..Len(P) : 5 * P[i] > P[j])
    /\ \A i \in 1..Len(P) : rbits[i] \in {0, 1}

\* C17: at each sampled column and for each role, bit i is 1 iff the power at
\* the role's i-th bin is strictly greater than 0.2 times the maximum power
\* among the role's own bins in that column; all powers zero gives all bits 0.
C17_RoleThreshold ==
    pc \in {"deframe", "done"} =>
        /\ Len(bit_data) = Len(transition_times)
        /\ \A k \in 1..Len(bit_data) :
              LET col == Sxx[transition_times[k]]
              IN  /\ RuleHolds(col.h, bit_data[k].h)
                  /\ RuleHolds(col.c, bit_data[k].c)
                  /\ RuleHolds(col.f, bit_data[k].f)
                  /\ RuleHolds(col.m, bit_data[k].m)

\* a column whose content powers sit on the threshold (1 = 0.2 * 5), whose
\* mode powers are all zero and whose header power is larger than both
C17_Witness ==
    /\ pc = "deframe" /\ Len(bit_data) = 1
    /\ Sxx[2].c = <<5, 1>> /\ bit_data[1].c = <<1, 0>>
    /\ Sxx[2].m = <<0, 0>> /\ bit_data[1].m = <<0, 0>>
    /\ Sxx[2].h = <<4>> /\ bit_data[1].h = <<1>>
    /\ Sxx[2].f = <<1>> /\ bit_data[1].f = <<1>>

\* round(a / b), for a / b not halfway between two integers
RoundDiv(a, b) == (2 * a + b) \div (2 * b)

CeilDiv(a, b) == (a + b - 1) \div b

\* ceil(|bits| / N) of one section
SymbolsOf(s) == CeilDiv(Len(bits[s]), Len(freq_config[s]))

\* C18: each symbol occupies round(sample_rate * symbol_duration) samples,
\* symbol_duration being 1 / clock_speed, and the encoder output has that many
\* samples times ceil(|header bits|/N_h) + ceil(|content bits|/N_c) +
\* ceil(|footer bits|/N_f).
C18_SampleCount ==
    LET sps == RoundDiv(sample_rate, clock_speed)
    IN  /\ \A s \in DOMAIN wave : Len(wave[s]) = sps * SymbolsOf(s)
        /\ Concatenated =>
               Len(data_wave) = sps * (SymbolsOf("header") + SymbolsOf("content")
                                          + SymbolsOf("footer"))
        /\ pc = "sample" => Len(full_wave) = Len(data_wave)

\* C19: for every waveform with a non-zero sample, write_wav produces 16-bit
\* samples that all lie in [-32767, 32767] and whose largest absolute value
\* is 32767; an all-zero waveform is written as all zeros, without an error.
C19_Normalization ==
    (pc \in {"done", "failed"} /\ data # <<>>) =>
        /\ pc = "done" /\ error = "none"
        /\ Len(data_int16) = Len(data)
        /\ \A i \in 1..Len(data) : data_int16[i] \in (-32767)..32767
        /\ (\E i \in 1..Len(data) : data[i] # 0)
              => \E i \in 1..Len(data) : data_int16[i] \in {32767, -32767}
        /\ (\A i \in 1..Len(data) : data[i] = 0)
              => \A i \in 1..Len(data) : data_int16[i] = 0

\* a waveform whose peak is negative and is not the full scale before writing
C19_Witness ==
    /\ pc = "done"
    /\ data = <<1, -2, 0>>
    /\ data_int16 = <<16383, -32767, 0>>

\* the rules of the format for a plan, at a sample rate
ValidPlan(plan, rate) ==
    /\ Len(plan["header"]) > 0 /\ Len(plan["content"]) > 0 /\ Len(plan["footer"]) > 0
    /\ Len(plan["clock"]) = 2 /\ Len(plan["modes"]) = 3
    /\ \A role \in DOMAIN plan :
          \A i \in 1..Len(plan[role]) : plan[role][i] > 0 /\ 2 * plan[role][i] <= rate

\* C20: loading a plan with an empty header, content or footer tone list, with
\* a clock of other than 2 tones or modes of other than 3, with a non-positive
\* tone or with a tone above sample_rate/2 fails with InvalidPlan, and the
\* encoder aborts before producing any waveform.
C20_PlanValidation ==
    (pc # "load" /\ ~ValidPlan(json_file, sample_rate)) =>
        /\ pc = "failed" /\ error = "InvalidPlan"
        /\ wave = NoMap /\ data_wave = <<>> /\ full_wave = <<>>

IsJsonNumber(v) == Len(v) = 2 /\ v[1] = "number"

\* C21: for every input, also a header buffer that decodes to valid JSON that
\* is not an object, the decoder returns an envelope with exactly the keys
\* header, content and footer, in which header is an object.
C21_EnvelopeTypes ==
    pc = "done" =>
        /\ DOMAIN binaric_request = {"header", "content", "footer"}
        /\ ~IsJsonNumber(binaric_request.header)

\* C24: multiplying every power of a spectrogram column by the same positive
\* constant leaves every decoded header, content, footer and mode bit of that
\* column unchanged.
C24_ScaleFree ==
    pc \in {"deframe", "done"} =>
        \A a, b \in 1..Len(bit_data) :
            (\E k \in 1..(MaxScale + 1) :
                 Sxx[transition_times[b]] = ScaleColumn(Sxx[transition_times[a]], k))
                => bit_data[a] = bit_data[b]

\* a column with powers on both sides of the threshold, and three times it
C24_Witness ==
    /\ pc = "deframe" /\ Len(bit_data) = 2
    /\ Sxx[2].c = <<5, 1>> /\ Sxx[4].c = <<15, 3>>
    /\ Sxx[2].m = <<1, 4>> /\ Sxx[4].m = <<3, 12>>
    /\ bit_data[1].c = <<1, 0>> /\ bit_data[2].c = <<1, 0>>
    /\ bit_data[1].m = <<1, 1>> /\ bit_data[2].m = <<1, 1>>

\* the bits of role powers P are 1 at the largest power, when one is positive
MaxBinIsOne(P, rbits) ==
    (\E i \in 1..Len(P) : P[i] > 0) =>
        /\ \A i \in 1..Len(P) : (\A j \in 1..Len(P) : P[j] <= P[i]) => rbits[i] = 1
        /\ \E i \in 1..Len(P) : rbits[i] = 1

\* C25: at every sampled column and for every role with at least one strictly
\* positive bin power, the bin with the largest power decodes to 1, so the
\* decoded bit vector of the role is never all zeros.
C25_MaxBinDecodesOne ==
    (pc \in {"deframe", "done"} /\ Len(bit_data) = Len(transition_times)) =>
        \A k \in 1..Len(bit_data) :
            \A role \in DOMAIN bit_data[k] :
                MaxBinIsOne(Sxx[transition_times[k]][role], bit_data[k][role])

\* the clock tone sounding at sample p of the clock waveform (0 in silence)
ClockToneAt(p) ==
    IF clock_wave[p] = {} THEN 0 ELSE (CHOOSE x \in clock_wave[p] : TRUE).f

\* the sample boundaries s (between samples s and s + 1, counted from 1) at
\* which the clock tone changes
ClockChanges ==
    {s \in 1..(Len(clock_wave) - 1) : ClockToneAt(s) # ClockToneAt(s + 1)}

\* C26: there is exactly one clock tone change per symbol period, at the
\* middle of the symbol, so that a decoder sampling one column per tone change
\* reads every transmitted symbol exactly once.
C26_OneChangePerSymbol ==
    ClockDone =>
        LET n == SamplesPer(sample_rate, clock_speed)
        IN  \A k \in 0..((Len(clock_wave) \div n) - 1) :
               {s \in ClockChanges : k * n <= s /\ s < (k + 1) * n}
                   = {k * n + (n \div 2)}

\* the tone of half-period j (from 0) of the tiled Manchester clock pattern
PatternTone(j) ==
    IF manchester_encode(ClockBits)[(j % (2 * Len(ClockBits))) + 1] = 1
    THEN freq_config["clock"][1] ELSE freq_config["clock"][2]

\* C27: the k-th clock period starts at sample k * samples_per_symbol for
\* every k within the waveform, also when samples_per_symbol is odd: each
\* sample of the two halves of symbol k carries the tone of half-period
\* 2k or 2k + 1 of the clock pattern.
C27_ClockAligned ==
    ClockDone =>
        LET n == SamplesPer(sample_rate, clock_speed)
            half == n \div 2
        IN  \A p \in 1..Len(clock_wave) :
               LET k == (p - 1) \div n
                   o == (p - 1) % n
               IN  (o < 2 * half /\ clock_wave[p] # {}) =>
                       ClockToneAt(p) = PatternTone(2 * k + (o \div half))

\* C22: for every request and every header and footer bit depth >= 2,
\* from_binaric of to_binaric has the same header fields, the same content
\* bytes and the same footer checksum as the request.
C22_RawRoundTrip ==
    (header_bitdepth # 0 /\ pc \in {"done", "failed"}) =>
        /\ pc = "done"
        /\ reconstructed_request.header = file_request.header
        /\ reconstructed_request.content = file_request.content
        /\ reconstructed_request.footer.checksum = file_request.footer.checksum

\* the smallest d with base^d >= 256
RECURSIVE Power(_, _)
Power(base, d) == IF d = 0 THEN 1 ELSE base * Power(base, d - 1)

SmallestWidth(base) ==
    CHOOSE d \in 1..ByteWidth : Power(base, d) >= ByteRange
                                /\ (d > 1 => Power(base, d - 1) < ByteRange)

\* the value of most-significant-first digits
PlaceValue(digits, base) ==
    LET RECURSIVE Sum(_)
        Sum(j) == IF j = 0 THEN 0
                  ELSE Sum(j - 1) + digits[j] * Power(base, Len(digits) - j)
    IN  Sum(Len(digits))

\* C28: for every base >= 2 and byte n, int_to_base(n, base, pad=d) with d
\* the smallest integer such that base^d >= 256 is d digits in 0..base-1,
\* most significant first, and base_to_int of it is n; BinaricContent.to_raw
\* produces d * len(data) digits and from_raw of them has the same bytes.
C28_FixedWidthDigits ==
    (header_bitdepth # 0 /\ pc \in {"from_binaric", "done"}) =>
        \E base \in {file_request.header.content_base} :
        \E d \in {SmallestWidth(base)} :
            /\ Len(content_raw.data) = d * Len(file_request.content)
            /\ \A i \in 1..Len(file_request.content) :
                  \E g \in {int_to_base(file_request.content[i], base, d)} :
                     /\ Len(g) = d
                     /\ \A j \in 1..Len(g) : g[j] \in 0..(base - 1)
                     /\ PlaceValue(g, base) = file_request.content[i]
                     /\ base_to_int(g, base) = file_request.content[i]
                     /\ Len(content_raw.data) >= i * d
                            => SubSeq(content_raw.data, (i - 1) * d + 1, i * d) = g
            /\ pc = "done" => reconstructed_request.content = file_request.content

C28_Witness ==
    /\ pc = "done" /\ header_bitdepth = 3
    /\ file_request.header.content_base = 3
    /\ file_request.content = <<165>>
    /\ content_raw.data = <<0, 2, 0, 0, 1, 0>>
    /\ reconstructed_request.content = <<165>>

LastCall == calls[Len(calls)]

\* C23: get_latest_chunk(chunk_size), for every chunk_size >= 0, returns None
\* iff the buffer holds fewer than chunk_size samples, and otherwise returns
\* exactly chunk_size samples, the last chunk_size samples of the buffer in
\* their order.
C23_LatestChunk ==
    (calls # <<>> /\ LastCall.op = "get_latest_chunk") =>
        \E n \in {LastCall.arg[1]} :
            /\ returned.is_none <=> Len(buffer) < n
            /\ ~returned.is_none =>
                  /\ Len(returned.samples) = n
                  /\ \A i \in 1..n : returned.samples[i] = buffer[Len(buffer) - n + i]

\* the samples of the chunks appended since the most recent clear
RECURSIVE AppendedSinceClear(_)
AppendedSinceClear(cs) ==
    IF cs = <<>> THEN <<>>
    ELSE IF cs[Len(cs)].op = "clear" THEN <<>>
    ELSE IF cs[Len(cs)].op = "append_chunk" /\ cs[Len(cs)].raised = "none"
         THEN AppendedSinceClear(SubSeq(cs, 1, Len(cs) - 1))
                  \o np_frombuffer(cs[Len(cs)].arg).value
    ELSE AppendedSinceClear(SubSeq(cs, 1, Len(cs) - 1))

\* C29: after any sequence of append_chunk, get_latest_chunk and clear calls
\* the buffer is the concatenation, in call order, of the samples of the
\* chunks appended since the most recent clear; get_latest_chunk leaves the
\* buffer as it was and clear leaves it empty.
C29_BufferContents ==
    pc = "buffer" =>
        /\ buffer = AppendedSinceClear(calls)
        /\ (calls # <<>> /\ LastCall.op = "clear") => buffer = <<>>
        /\ (calls # <<>> /\ LastCall.op = "get_latest_chunk") =>
               buffer = AppendedSinceClear(SubSeq(calls, 1, Len(calls) - 1))

C29_Witness ==
    /\ pc = "buffer" /\ Len(calls) = 4
    /\ calls[1].op = "append_chunk" /\ calls[1].arg = <<255, 1>>
    /\ calls[2].op = "clear"
    /\ calls[3].op = "append_chunk" /\ calls[3].arg = <<1, 255>>
    /\ calls[4].op = "append_chunk" /\ calls[4].arg = <<255, 255>>
    /\ buffer = <<-255, -1>>

\* C30: for every text and every chunk_length >= 1, string_to_bitset emits 8
\* bits per character, every chunk except possibly the last has exactly
\* chunk_length bits, no padding bits are added to the last chunk, and
\* bitset_to_string of the bitset is the text.
C30_BitsetRoundTrip ==
    (chunk_length # 0 /\ pc \in {"to_string", "done"}) =>
        /\ Len(Flatten(bitset)) = ByteWidth * Len(bitset_text)
        /\ \A k \in 1..(Len(bitset) - 1) : Len(bitset[k]) = chunk_length
        /\ bitset # <<>> => Len(bitset[Len(bitset)]) \in 1..chunk_length
        /\ pc = "done" => bitset_out = bitset_text

====
